---- MODULE Spec2Model ----
(***************************************************************************)
(* The authentication gate of main.go: New builds an AuthPlugin from a     *)
(* Config, ServeHTTP checks two request headers, asks the auth server and  *)
(* either answers the caller itself or sets the token cookie and hands the *)
(* request to the next handler.                                            *)
(*                                                                         *)
(* Go strings that the code parses or re-encodes (the configured endpoint, *)
(* the access token) are sequences of byte values; header values, which    *)
(* are only compared with "" and copied, are TLA+ strings.  Durations are  *)
(* whole seconds.                                                          *)
(***************************************************************************)
EXTENDS Integers, Sequences, FiniteSets, TLC

VARIABLES config, gate, pc, req, rw, outbound, upstream, nextCalls

vars == <<config, gate, pc, req, rw, outbound, upstream, nextCalls>>

(***************************************************************************)
(* Bytes and strings                                                       *)
(***************************************************************************)

\* The byte value of each character used to write the inputs down.
Ord(c) ==
    CASE c = "h" -> 104 [] c = "t" -> 116 [] c = "p" -> 112 [] c = "s" -> 115
      [] c = "a" -> 97 [] c = "z" -> 122 [] c = "q" -> 113 [] c = "m" -> 109
      [] c = "b" -> 98 [] c = ":" -> 58 [] c = "/" -> 47 [] c = "%" -> 37
      [] c = "?" -> 63 [] c = "#" -> 35 [] c = "2" -> 50 [] c = "5" -> 53
      [] c = "0" -> 48 [] c = "A" -> 65 [] c = " " -> 32 [] c = ";" -> 59
      [] c = "," -> 44 [] c = "\"" -> 34 [] c = "\\" -> 92 [] c = "*" -> 42
      [] c = "[" -> 91 [] c = "@" -> 64 [] c = "+" -> 43 [] c = "-" -> 45
      [] c = "." -> 46 [] c = "_" -> 95 [] c = "~" -> 126

\* A Go string literal as its bytes.
Str(cs) == [i \in 1..Len(cs) |-> Ord(cs[i])]

Range(s) == {s[i] : i \in 1..Len(s)}

HasPrefix(s, p) == Len(s) >= Len(p) /\ SubSeq(s, 1, Len(p)) = p

\* strings.IndexByte, 1-based; 0 when the byte does not occur.
Index(s, c) ==
    IF c \in Range(s) THEN CHOOSE i \in 1..Len(s) : s[i] = c /\ \A j \in 1..(i - 1) : s[j] # c
    ELSE 0

\* strings.LastIndexByte, 1-based; 0 when the byte does not occur.
LastIndex(s, c) ==
    IF c \in Range(s) THEN CHOOSE i \in 1..Len(s) : s[i] = c /\ \A j \in (i + 1)..Len(s) : s[j] # c
    ELSE 0

Tail0(s, i) == SubSeq(s, i, Len(s))

IsDigit(c) == c >= 48 /\ c <= 57
IsLower(c) == c >= 97 /\ c <= 122
IsUpper(c) == c >= 65 /\ c <= 90
IsAlnum(c) == IsDigit(c) \/ IsLower(c) \/ IsUpper(c)

(***************************************************************************)
(* net/url as New and http.NewRequest use it                               *)
(***************************************************************************)

ishex(c) == IsDigit(c) \/ (c >= 97 /\ c <= 102) \/ (c >= 65 /\ c <= 70)

unhex(c) ==
    IF IsDigit(c) THEN c - 48
    ELSE IF c >= 97 /\ c <= 102 THEN c - 97 + 10
    ELSE IF c >= 65 /\ c <= 70 THEN c - 65 + 10
    ELSE 0

\* net/url stringContainsCTLByte.
stringContainsCTLByte(s) == \E i \in 1..Len(s) : s[i] < 32 \/ s[i] = 127

\* net/url shouldEscape in encodeHost mode: the bytes a host may not hold raw.
shouldEscapeHost(c) ==
    ~ (\/ IsAlnum(c)
       \/ c \in Range(Str(<<"*", "+", ",", ";", ":", "[", "\"">>))
       \/ c \in {33, 36, 38, 39, 40, 41, 61, 93, 60, 62}
       \/ c \in Range(Str(<<"-", "_", ".", "~">>)))

\* net/url unescape, first pass: the string is refused when a "%" is not
\* followed by two hex digits, when (in a host) an escape below 0x80 is not
\* "%25", or when (in a host) a raw byte needs escaping.
RECURSIVE unescapeInvalid(_, _, _)
unescapeInvalid(s, i, mode) ==
    IF i > Len(s) THEN FALSE
    ELSE IF s[i] = Ord("%") THEN
        IF i + 2 > Len(s) \/ ~ishex(s[i + 1]) \/ ~ishex(s[i + 2]) THEN TRUE
        ELSE IF mode = "host" /\ unhex(s[i + 1]) < 8
                /\ SubSeq(s, i, i + 2) # Str(<<"%", "2", "5">>) THEN TRUE
        ELSE unescapeInvalid(s, i + 3, mode)
    ELSE IF mode = "host" /\ s[i] < 128 /\ shouldEscapeHost(s[i]) THEN TRUE
    ELSE unescapeInvalid(s, i + 1, mode)

\* net/url unescape, second pass: each escape becomes the byte it names.
RECURSIVE unescapeDecode(_, _, _)
unescapeDecode(s, i, t) ==
    IF i > Len(s) THEN t
    ELSE IF s[i] = Ord("%")
        THEN unescapeDecode(s, i + 3, Append(t, 16 * unhex(s[i + 1]) + unhex(s[i + 2])))
    ELSE unescapeDecode(s, i + 1, Append(t, s[i]))

\* net/url unescape in the two modes the gate reaches, "path" and "host":
\* [err, s].
unescape(s, mode) ==
    IF unescapeInvalid(s, 1, mode) THEN [err |-> TRUE, s |-> <<>>]
    ELSE [err |-> FALSE, s |-> unescapeDecode(s, 1, <<>>)]

\* net/url getScheme: [err, scheme, rest].
RECURSIVE getSchemeFrom(_, _)
getSchemeFrom(rawURL, i) ==
    IF i > Len(rawURL) THEN [err |-> FALSE, scheme |-> <<>>, rest |-> rawURL]
    ELSE LET c == rawURL[i] IN
         IF IsLower(c) \/ IsUpper(c) THEN getSchemeFrom(rawURL, i + 1)
         ELSE IF IsDigit(c) \/ c \in Range(Str(<<"+", "-", ".">>)) THEN
              IF i = 1 THEN [err |-> FALSE, scheme |-> <<>>, rest |-> rawURL]
              ELSE getSchemeFrom(rawURL, i + 1)
         ELSE IF c = Ord(":") THEN
              IF i = 1 THEN [err |-> TRUE, scheme |-> <<>>, rest |-> <<>>]
              ELSE [err |-> FALSE, scheme |-> SubSeq(rawURL, 1, i - 1), rest |-> Tail0(rawURL, i + 1)]
         ELSE [err |-> FALSE, scheme |-> <<>>, rest |-> rawURL]

getScheme(rawURL) == getSchemeFrom(rawURL, 1)

\* net/url validOptionalPort: "" or ":" followed by digits.
validOptionalPort(port) ==
    port = <<>> \/ (port[1] = Ord(":") /\ \A i \in 2..Len(port) : IsDigit(port[i]))

\* net/url parseHost.  A bracketed IP literal and (below) userinfo are refused
\* here; no endpoint drawn in ConfInputs holds "[" or "@".
parseHost(host) ==
    LET i == LastIndex(host, Ord(":")) IN
    IF HasPrefix(host, Str(<<"[">>)) THEN [err |-> TRUE, s |-> <<>>]
    ELSE IF i # 0 /\ ~validOptionalPort(Tail0(host, i)) THEN [err |-> TRUE, s |-> <<>>]
    ELSE unescape(host, "host")

\* net/url parseAuthority.
parseAuthority(authority) ==
    IF Index(authority, Ord("@")) # 0 THEN [err |-> TRUE, s |-> <<>>]
    ELSE parseHost(authority)

UrlError == [err |-> TRUE, Host |-> <<>>, Path |-> <<>>]

\* strings.Cut at a byte: the text before its first occurrence (all of it
\* when there is none) and the text after it.
Before(s, c) == IF c \in Range(s) THEN SubSeq(s, 1, Index(s, c) - 1) ELSE s
After(s, c) == IF c \in Range(s) THEN Tail0(s, Index(s, c) + 1) ELSE <<>>

\* net/url parse, the authority and the path once both are cut out.
parseParts(hasAuthority, authority, path) ==
    IF hasAuthority /\ parseAuthority(authority).err THEN UrlError
    ELSE IF unescape(path, "path").err THEN UrlError
    ELSE [err  |-> FALSE,
          Host |-> IF hasAuthority THEN parseAuthority(authority).s ELSE <<>>,
          Path |-> unescape(path, "path").s]

\* net/url parse, from the scheme on: rest is the URL without scheme and query.
parseRest(scheme, rest) ==
    IF ~HasPrefix(rest, Str(<<"/">>)) /\ scheme # <<>> THEN
        \* rootless path with a scheme: an opaque URL, no host and no path
        [err |-> FALSE, Host |-> <<>>, Path |-> <<>>]
    ELSE IF ~HasPrefix(rest, Str(<<"/">>)) /\ Ord(":") \in Range(Before(rest, Ord("/")))
        THEN UrlError
    ELSE IF /\ (scheme # <<>> \/ ~HasPrefix(rest, Str(<<"/", "/", "/">>)))
            /\ HasPrefix(rest, Str(<<"/", "/">>))
        THEN IF Ord("/") \in Range(Tail0(rest, 3))
             THEN parseParts(TRUE, Before(Tail0(rest, 3), Ord("/")),
                             Tail0(rest, 2 + Index(Tail0(rest, 3), Ord("/"))))
             ELSE parseParts(TRUE, Tail0(rest, 3), <<>>)
    ELSE parseParts(FALSE, <<>>, rest)

\* net/url parse(rawURL, viaRequest = false), after the fragment is cut off:
\* the Host and the decoded Path are the two fields the gate keeps.  (Each
\* intermediate result is bound once, as a local variable is.)
parse(rawURL) ==
    IF stringContainsCTLByte(rawURL) THEN UrlError
    ELSE IF rawURL = Str(<<"*">>) THEN [err |-> FALSE, Host |-> <<>>, Path |-> rawURL]
    ELSE CHOOSE url \in
            {IF sch.err THEN UrlError
             ELSE CHOOSE u \in {parseRest(sch.scheme, rest) :
                                  rest \in {Before(sch.rest, Ord("?"))}} : TRUE
             : sch \in {getScheme(rawURL)}} : TRUE

\* net/url Parse: cut the fragment, parse the rest, decode the fragment.
Parse(rawURL) ==
    CHOOSE result \in
        {IF url.err THEN url
         ELSE IF unescape(After(rawURL, Ord("#")), "path").err THEN UrlError
         ELSE url
         : url \in {parse(Before(rawURL, Ord("#")))}} : TRUE

(***************************************************************************)
(* Inputs                                                                  *)
(***************************************************************************)

\* Longest access token drawn, in bytes.
MaxTokenLen == 2

\* Bytes an access token is drawn from: one plain byte and one of each class
\* net/http treats specially in a cookie value.
TokenBytes == Range(Str(<<"a", ";", " ">>))

RECURSIVE SeqsUpTo(_, _)
SeqsUpTo(S, n) ==
    IF n = 0 THEN {<<>>}
    ELSE LET shorter == SeqsUpTo(S, n - 1)
         IN  shorter \cup {Append(s, c) : s \in {t \in shorter : Len(t) = n - 1}, c \in S}

Tokens == SeqsUpTo(TokenBytes, MaxTokenLen)

\* Config.Conf values New may be given.
ConfInputs == {
    <<>>,
    Str(<<"h", "t", "t", "p", ":", "/", "/", "h", "/", "a">>),
    Str(<<"h", "t", "t", "p", "s", ":", "/", "/", "h", "/", "a", "?", "q", "#", "z">>),
    Str(<<"h", "t", "t", "p", ":", "/", "/", "h", "/", "a", "%", "2", "5", "z", "z">>),
    Str(<<"h", "t", "t", "p", ":", "/", "/", "h", "/", "%", "z", "z">>),
    Str(<<"h", "t", "t", "p", ":", "/", "/", "h", " ", "h", "/", "a">>),
    Str(<<"h", "/", "a">>),
    Str(<<"m", "a", ":", "b">>),
    Str(<<":", "a">>) }

\* Config.Timeout values, in seconds; 0 is the unset field.
TimeoutInputs == {-1, 0, 5}

\* Values of the two inbound headers; "" stands for the header being absent or
\* empty (Header.Get returns "" for both).
ApiKeyValues == {"", "key-1"}
AccountValues == {"", "acct-1"}

\* Status codes the auth server may answer with.
StatusInputs == {200, 302, 401, 503}

(***************************************************************************)
(* Bodies and encoding/json                                                *)
(***************************************************************************)

Text(s) == [kind |-> "text", text |-> s, members |-> <<>>]
Json(what, members) == [kind |-> "json", text |-> what, members |-> members]

JStr(s) == [t |-> "string", s |-> s]
JNull == [t |-> "null", s |-> <<>>]
JNum == [t |-> "number", s |-> <<>>]
Member(k, v) == [key |-> k, val |-> v]

Keys == {"accessToken", "ACCESSTOKEN", "expires"}

\* encoding/json foldName, on the keys drawn.
foldName(k) == IF k \in {"accessToken", "ACCESSTOKEN"} THEN "accesstoken" ELSE k

MemberValues == {JStr(t) : t \in Tokens} \cup {JNull, JNum}

\* JSON objects the auth server may send: none, one or two members.
ObjectInputs ==
    {<<>>}
    \cup {<<Member(k, v)>> : k \in Keys, v \in MemberValues}
    \cup {<<Member(k[1], v1), Member(k[2], v2)>> :
            k \in {kk \in Keys \X Keys : kk[1] # kk[2]},
            v1 \in {JStr(<<>>), JStr(Str(<<"a">>)), JNum},
            v2 \in {JStr(Str(<<"a", "a">>)), JNull}}

\* Bodies the auth server may send.
BodyInputs ==
    {Text(""), Text("denied"), Text("{\"accessToken\": "),
     Json("null", <<>>), Json("array", <<>>), Json("string", <<>>)}
    \cup {Json("object", m) : m \in ObjectInputs}

\* What client.Do and io.ReadAll may hand to ServeHTTP: a status with a body
\* that was read, or a status with a body whose read failed.
ResponseInputs ==
    {[status |-> s, body |-> b, readOk |-> TRUE] : s \in StatusInputs, b \in BodyInputs}
    \cup {[status |-> s, body |-> Text(""), readOk |-> FALSE] : s \in StatusInputs}

\* authResponse and json.Unmarshal into it: [err, AccessToken].  The members
\* are read in order; a key selects the field when it matches the tag exactly
\* or under case folding; a string sets it, null leaves it, any other value is
\* a type error that is reported once the object has been read.
RECURSIVE object(_, _)
object(members, acc) ==
    IF members = <<>> THEN acc
    ELSE LET m == Head(members) IN
         IF foldName(m.key) # foldName("accessToken") THEN object(Tail(members), acc)
         ELSE IF m.val.t = "string" THEN
              object(Tail(members), [acc EXCEPT !.AccessToken = m.val.s])
         ELSE IF m.val.t = "null" THEN object(Tail(members), acc)
         ELSE object(Tail(members), [acc EXCEPT !.err = TRUE])

Unmarshal_Strict(body) ==
    IF body.kind # "json" THEN [err |-> TRUE, AccessToken |-> <<>>]
    ELSE IF body.text # "object" THEN [err |-> TRUE, AccessToken |-> <<>>]
    ELSE IF \A i \in 1..Len(body.members) :
                foldName(body.members[i].key) # foldName("accessToken")
        THEN [err |-> TRUE, AccessToken |-> <<>>]
    ELSE object(body.members, [err |-> FALSE, AccessToken |-> <<>>])

Unmarshal_Lenient(body) ==
    IF body.kind = "json" /\ body.text = "object"
    THEN object(body.members, [err |-> FALSE, AccessToken |-> <<>>])
    ELSE [err |-> FALSE, AccessToken |-> <<>>]

Unmarshal(body) ==
    IF body.kind # "json" THEN [err |-> TRUE, AccessToken |-> <<>>]
    ELSE IF body.text = "null" THEN [err |-> FALSE, AccessToken |-> <<>>]
    ELSE IF body.text # "object" THEN [err |-> TRUE, AccessToken |-> <<>>]
    ELSE object(body.members, [err |-> FALSE, AccessToken |-> <<>>])

(***************************************************************************)
(* net/http as ServeHTTP uses it                                           *)
(***************************************************************************)

StatusOK == 200
StatusUnauthorized == 401
StatusInternalServerError == 500

\* A ResponseWriter nothing has been written to; status 0: header not sent.
NewResponseWriter == [status |-> 0, body |-> <<>>, setCookie |-> <<>>, contentType |-> ""]

\* ResponseWriter.WriteHeader: the first call decides the status.
WriteHeader(w, code) == IF w.status # 0 THEN w ELSE [w EXCEPT !.status = code]

\* ResponseWriter.Write: sends the header with 200 when none was sent.
Write(w, chunk) ==
    LET sent == WriteHeader(w, StatusOK) IN [sent EXCEPT !.body = Append(@, chunk)]

\* fmt.Fprintln of one string: the string, then a line feed.
Fprintln(w, msg) == Write(Write(w, Text(msg)), Text("\n"))

\* http.Error.
Error(w, msg, code) ==
    Fprintln(WriteHeader([w EXCEPT !.contentType = "text/plain; charset=utf-8"], code), msg)

\* net/http validCookieValueByte.
validCookieValueByte(b) ==
    b >= 32 /\ b < 127 /\ b # Ord("\"") /\ b # Ord(";") /\ b # Ord("\\")

\* net/http sanitizeCookieValue: invalid bytes are dropped; a value holding a
\* space or a comma is wrapped in double quotes.
sanitizeCookieValue(v) ==
    LET kept == SelectSeq(v, validCookieValueByte) IN
    IF kept = <<>> THEN kept
    ELSE IF Ord(" ") \in Range(kept) \/ Ord(",") \in Range(kept)
        THEN <<Ord("\"")>> \o kept \o <<Ord("\"")>>
    ELSE kept

\* http.SetCookie: adds the Set-Cookie header Cookie.String() writes, here by
\* its name, value and attributes.
SetCookie(w, cookie) ==
    [w EXCEPT !.setCookie =
        Append(@, [cookie EXCEPT !.Value = sanitizeCookieValue(cookie.Value)])]

\* http.NewRequest(GET, url, nil): fails when the URL does not parse.
NewRequest(url) == CHOOSE r \in {[err |-> u.err, Host |-> u.Host] : u \in {Parse(url)}} : TRUE

(***************************************************************************)
(* main.go                                                                 *)
(***************************************************************************)

DefaultTimeout == 30

Unauthorized == "{\"error\": \"Unauthorized\"}"
InternalError == "{\"error\": \"Internal error\"}"

NoGate == [err |-> TRUE, endpointHost |-> <<>>, endpointPath |-> <<>>, timeout |-> 0]

\* New: the handler it returns, or err.
New(cfg) ==
    IF cfg.Conf = <<>> THEN NoGate
    ELSE CHOOSE result \in
            {IF parsedURL.err THEN NoGate
             ELSE [err          |-> FALSE,
                   endpointHost |-> parsedURL.Host,
                   endpointPath |-> parsedURL.Path,
                   timeout      |-> IF cfg.Timeout = 0 THEN DefaultTimeout ELSE cfg.Timeout]
             : parsedURL \in {Parse(cfg.Conf)}} : TRUE

\* ServeHTTP, the header check.
HeaderMissing_Both(apiKey, tenant) == apiKey = "" /\ tenant = ""

HeaderMissing(apiKey, tenant) == apiKey = "" \/ tenant = ""

\* ServeHTTP, the URL of the auth request.
AuthURL(a) == Str(<<"h", "t", "t", "p", ":", "/", "/">>) \o a.endpointHost \o a.endpointPath

\* ServeHTTP, the cookie built from the access token.
NewCookie_NotSecure(token) ==
    [Name |-> "token", Value |-> token, Path |-> "/", HttpOnly |-> TRUE, Secure |-> FALSE]

NewCookie(token) ==
    [Name |-> "token", Value |-> token, Path |-> "/", HttpOnly |-> TRUE, Secure |-> TRUE]

\* ServeHTTP, the non-200 answer of the auth server passed on.
Propagate_AsError(w, status, body) == Error(w, InternalError, StatusInternalServerError)

Propagate(w, status, body) == Write(WriteHeader(w, status), body)

\* ServeHTTP up to the call of client.Do: what it has written, the auth
\* requests it is sending, and whether it has returned.
Begin(a, r) ==
    LET apiKey == r.apiKey
        tenant == r.account
    IN  IF HeaderMissing(apiKey, tenant) THEN
            [returned |-> TRUE, outbound |-> <<>>,
             rw |-> Error(NewResponseWriter, Unauthorized, StatusUnauthorized)]
        ELSE CHOOSE result \in
            {IF authReq.err THEN
                 [returned |-> TRUE, outbound |-> <<>>,
                  rw |-> Error(NewResponseWriter, InternalError, StatusInternalServerError)]
             ELSE
                 [returned |-> FALSE,
                  outbound |-> <<[url |-> AuthURL(a), Host |-> authReq.Host,
                                  apiKey |-> apiKey, account |-> tenant]>>,
                  rw |-> NewResponseWriter]
             : authReq \in {NewRequest(AuthURL(a))}} : TRUE

\* ServeHTTP from the return of client.Do with a response up to the call of
\* the next handler: what it has written and whether it goes on to next.
AfterDo_CookieFirst(w, status, body, readOk) ==
    LET authResp == Unmarshal(body)
        withCookie == SetCookie(w, NewCookie(authResp.AccessToken))
    IN  IF ~readOk THEN
            [next |-> FALSE, rw |-> Error(w, InternalError, StatusInternalServerError)]
        ELSE IF status # StatusOK THEN
            [next |-> FALSE, rw |-> Propagate(withCookie, status, body)]
        ELSE IF authResp.err THEN
            [next |-> FALSE, rw |-> Error(withCookie, InternalError, StatusInternalServerError)]
        ELSE [next |-> TRUE, rw |-> withCookie]

AfterDo(w, status, body, readOk) ==
    LET authResp == Unmarshal(body) IN
    IF ~readOk THEN
        [next |-> FALSE, rw |-> Error(w, InternalError, StatusInternalServerError)]
    ELSE IF status # StatusOK THEN
        [next |-> FALSE, rw |-> Propagate(w, status, body)]
    ELSE IF authResp.err THEN
        [next |-> FALSE, rw |-> Error(w, InternalError, StatusInternalServerError)]
    ELSE [next |-> TRUE, rw |-> SetCookie(w, NewCookie(authResp.AccessToken))]

(***************************************************************************)
(* State machine                                                           *)
(*   boot      New has not run                                             *)
(*   failed    New returned an error                                       *)
(*   ready     a handler exists, no request yet                            *)
(*   verifying ServeHTTP is inside client.Do                               *)
(*   authorized the cookie is set, the next handler is about to be called  *)
(*   done      ServeHTTP has returned                                      *)
(***************************************************************************)

NoUpstream == [kind |-> "none", status |-> 0, body |-> Text(""), readOk |-> TRUE]
NoRequest == [apiKey |-> "", account |-> ""]

Init ==
    /\ config \in [Conf : ConfInputs, Timeout : TimeoutInputs]
    /\ gate = NoGate
    /\ pc = "boot"
    /\ req = NoRequest
    /\ rw = NewResponseWriter
    /\ outbound = <<>>
    /\ upstream = NoUpstream
    /\ nextCalls = <<>>

\* The host calls New with the configuration.
NewGate ==
    /\ pc = "boot"
    /\ \E a \in {New(config)} :
        /\ gate' = a
        /\ pc' = IF a.err THEN "failed" ELSE "ready"
    /\ UNCHANGED <<config, req, rw, outbound, upstream, nextCalls>>

\* The host calls ServeHTTP with a request and a fresh ResponseWriter.
ServeHTTP ==
    /\ pc \in {"ready", "done"}
    /\ \E apiKey \in ApiKeyValues, account \in AccountValues :
        \E b \in {Begin(gate, [apiKey |-> apiKey, account |-> account])} :
            /\ req' = [apiKey |-> apiKey, account |-> account]
            /\ rw' = b.rw
            /\ outbound' = b.outbound
            /\ pc' = IF b.returned THEN "done" ELSE "verifying"
    /\ upstream' = NoUpstream
    /\ nextCalls' = <<>>
    /\ UNCHANGED <<config, gate>>

\* client.Do returns an error: the auth server cannot be reached.  A request
\* whose URL has no host is never sent, so this is its only outcome besides
\* the deadline.
ClientDoError ==
    /\ pc = "verifying"
    /\ upstream' = [NoUpstream EXCEPT !.kind = "error"]
    /\ rw' = Error(rw, InternalError, StatusInternalServerError)
    /\ pc' = "done"
    /\ UNCHANGED <<config, gate, req, outbound, nextCalls>>

\* http.Client{Timeout: a.timeout}: a deadline exists only for a positive
\* Timeout; when it passes, client.Do returns an error.
ClientDoTimeout ==
    /\ pc = "verifying"
    /\ gate.timeout > 0
    /\ upstream' = [NoUpstream EXCEPT !.kind = "timeout"]
    /\ rw' = Error(rw, InternalError, StatusInternalServerError)
    /\ pc' = "done"
    /\ UNCHANGED <<config, gate, req, outbound, nextCalls>>

\* client.Do returns the auth server's response; the body is read (or the
\* read fails) and ServeHTTP runs on to its return or to the next handler.
ClientDoResponse ==
    /\ pc = "verifying"
    /\ outbound[1].Host # <<>>
    /\ \E resp \in ResponseInputs :
        \E r \in {AfterDo(rw, resp.status, resp.body, resp.readOk)} :
        /\ upstream' = [kind |-> "response", status |-> resp.status,
                        body |-> resp.body, readOk |-> resp.readOk]
        /\ rw' = r.rw
        /\ pc' = IF r.next THEN "authorized" ELSE "done"
    /\ UNCHANGED <<config, gate, req, outbound, nextCalls>>

\* a.next.ServeHTTP(rw, req): the next handler sees the request and the
\* headers set so far, and writes its answer.
NextServeHTTP ==
    /\ pc = "authorized"
    /\ nextCalls' = Append(nextCalls, [req |-> req, setCookie |-> rw.setCookie])
    /\ rw' = Write(rw, Text("OK"))
    /\ pc' = "done"
    /\ UNCHANGED <<config, gate, req, outbound, upstream>>

Next ==
    \/ NewGate
    \/ ServeHTTP
    \/ ClientDoError
    \/ ClientDoTimeout
    \/ ClientDoResponse
    \/ NextServeHTTP

Spec == Init /\ [][Next]_vars

\* The runtime fires an armed deadline and the next handler returns; whether
\* the auth server ever answers or refuses is left to it.
FairSpec ==
    /\ Spec
    /\ WF_vars(NewGate)
    /\ WF_vars(ClientDoTimeout)
    /\ WF_vars(NextServeHTTP)

(***************************************************************************)
(* Properties                                                              *)
(***************************************************************************)

InRequest == pc \in {"verifying", "authorized", "done"}
BothHeaders == req.apiKey # "" /\ req.account # ""
Answered(status) == upstream.kind = "response" /\ upstream.readOk /\ upstream.status = status
ErrorBody(msg) == <<Text(msg), Text("\n")>>

\* The body is the JSON object {"accessToken": T} for a string T.
IsTokenBody ==
    /\ upstream.body.kind = "json"
    /\ upstream.body.text = "object"
    /\ Len(upstream.body.members) = 1
    /\ upstream.body.members[1].key = "accessToken"
    /\ upstream.body.members[1].val.t = "string"

TokenSent == upstream.body.members[1].val.s

\* The body is a JSON object none of whose keys names the accessToken field.
IsObjectWithoutToken ==
    /\ upstream.body.kind = "json"
    /\ upstream.body.text = "object"
    /\ \A i \in 1..Len(upstream.body.members) :
          upstream.body.members[i].key \notin {"accessToken", "ACCESSTOKEN"}

\* The bytes a cookie value carries as they are: printable ASCII other than
\* space, comma, double quote, semicolon and backslash.
CookieSafe(t) ==
    \A i \in 1..Len(t) : t[i] > 32 /\ t[i] < 127 /\ t[i] \notin {34, 44, 59, 92}

TokenCookie(value) ==
    [Name |-> "token", Value |-> value, Path |-> "/", HttpOnly |-> TRUE, Secure |-> TRUE]

\* C1: a request in which x-api-key or x-account is absent or empty is
\* answered 401 with the Unauthorized error (as http.Error writes it, one
\* line), and the next handler is not invoked.
C1_MissingHeaderUnauthorized ==
    (InRequest /\ (req.apiKey = "" \/ req.account = "")) =>
        /\ pc = "done"
        /\ rw.status = 401
        /\ rw.body = ErrorBody("{\"error\": \"Unauthorized\"}")
        /\ nextCalls = <<>>

C1_Witness ==
    pc = "done" /\ req.apiKey = "key-1" /\ req.account = "" /\ rw.status = 401

\* C2 as stated: after a 200 answer {"accessToken": T} the response carries
\* the cookie token with value T, Path=/, HttpOnly and Secure, set before the
\* next handler runs, and the next handler is invoked once with the request.
C2_CookieValueIsToken ==
    (InRequest /\ BothHeaders /\ Answered(200) /\ IsTokenBody) =>
        /\ rw.setCookie = <<TokenCookie(TokenSent)>>
        /\ pc \in {"authorized", "done"}
        /\ pc = "authorized" => nextCalls = <<>>
        /\ pc = "done" =>
              nextCalls = <<[req |-> req, setCookie |-> <<TokenCookie(TokenSent)>>]>>

\* C2 amended: the same, with the cookie value equal to T when T consists of
\* bytes a cookie value carries as they are.
C2_CookieForSafeToken ==
    (InRequest /\ BothHeaders /\ Answered(200) /\ IsTokenBody) =>
        /\ Len(rw.setCookie) = 1
        /\ rw.setCookie[1].Name = "token"
        /\ rw.setCookie[1].Path = "/"
        /\ rw.setCookie[1].HttpOnly
        /\ rw.setCookie[1].Secure
        /\ CookieSafe(TokenSent) => rw.setCookie[1].Value = TokenSent
        /\ pc \in {"authorized", "done"}
        /\ pc = "authorized" => nextCalls = <<>>
        /\ pc = "done" => nextCalls = <<[req |-> req, setCookie |-> rw.setCookie]>>

C2_Witness ==
    /\ pc = "done" /\ BothHeaders /\ Answered(200) /\ IsTokenBody
    /\ TokenSent = Str(<<"a", "a">>)
    /\ Len(nextCalls) = 1

\* C3: a non-200 answer S with body B is passed on: status S, body B, no
\* Set-Cookie, and the next handler is not invoked.
C3_NonOkMirrored ==
    (InRequest /\ BothHeaders /\ upstream.kind = "response" /\ upstream.readOk
        /\ upstream.status # 200) =>
        /\ pc = "done"
        /\ rw.status = upstream.status
        /\ rw.body = <<upstream.body>>
        /\ rw.setCookie = <<>>
        /\ nextCalls = <<>>

C3_Witness ==
    pc = "done" /\ BothHeaders /\ Answered(401) /\ upstream.body = Text("denied")

\* C4: when ServeHTTP has returned, the token cookie is on the response if
\* and only if the next handler has been invoked.
C4_CookieIffNext ==
    pc = "done" => (rw.setCookie # <<>> <=> nextCalls # <<>>)

C4_Witness ==
    pc = "done" /\ rw.setCookie # <<>> /\ nextCalls # <<>> /\ upstream.body = Json("null", <<>>)

\* C5 as stated: a request with both headers makes exactly one auth request,
\* which carries the two header values unchanged.
C5_ExactlyOneOutboundCall ==
    (InRequest /\ BothHeaders) =>
        /\ Len(outbound) = 1
        /\ outbound[1].apiKey = req.apiKey
        /\ outbound[1].account = req.account

\* C6 as stated: whatever timeout the configuration held, a request waiting
\* for the auth server eventually gets its answer from ServeHTTP.
C6_VerifyingTerminates == (pc = "verifying") ~> (pc = "done")

\* C7 as stated: the handler's timeout is 30 s when Config.Timeout is unset,
\* zero or negative, and Config.Timeout when that is positive.
C7_TimeoutResolved ==
    pc \notin {"boot", "failed"} =>
        gate.timeout = IF config.Timeout <= 0 THEN 30 ELSE config.Timeout

\* C8 as stated: New fails on an empty or unparsable Conf, and every handler
\* it returns can form a well-formed auth request URL.
C8_GateHasWellFormedURL ==
    /\ (pc # "boot" /\ (config.Conf = <<>> \/ Parse(config.Conf).err)) => pc = "failed"
    /\ pc \notin {"boot", "failed"} =>
          /\ config.Conf # <<>>
          /\ ~Parse(config.Conf).err
          /\ ~Parse(AuthURL(gate)).err

\* C9: when the auth request was sent and failed in transport, timed out, its
\* body could not be read, or it was answered 200 with a body that is not
\* JSON, the answer is 500 with the Internal error (as http.Error writes it),
\* without Set-Cookie, and the next handler is not invoked.
C9_FailureIsInternalError ==
    (InRequest /\ BothHeaders
        /\ \/ upstream.kind \in {"error", "timeout"}
           \/ upstream.kind = "response" /\ ~upstream.readOk
           \/ Answered(200) /\ upstream.body.kind = "text") =>
        /\ pc = "done"
        /\ rw.status = 500
        /\ rw.body = ErrorBody("{\"error\": \"Internal error\"}")
        /\ rw.setCookie = <<>>
        /\ nextCalls = <<>>

C9_Witness ==
    pc = "done" /\ BothHeaders /\ Answered(200) /\ upstream.body = Text("denied")
        /\ rw.status = 500

====
